---------------------------- MODULE Spec2Model ----------------------------
(***************************************************************************)
(* Model of fastNLP's mini-batch iterator, fastNLP/core/batch.py (class    *)
(* Batch).  The state is the iterator object's fields (dataset,            *)
(* batch_size, use_cuda, idx_list, curidx, lengths) together with what the *)
(* last operation handed to its caller and to the dataset (result,         *)
(* batch_x, batch_y, calls) and the slices produced since the pass began   *)
(* (passlog), and whether the pass began with a cursor left over from an   *)
(* earlier pass (rewound).  The sampler, DataSet.get_length and            *)
(* DataSet.to_tensor are collaborators that live outside batch.py.         *)
(* The variable ev is the state of one call of evaluate                    *)
(* (model_inplement/code/evaluate.py).                                     *)
(***************************************************************************)
EXTENDS Integers, Sequences, FiniteSets, TLC

VARIABLES dataset, batch_size, use_cuda, idx_list, curidx, lengths,
          result, batch_x, batch_y, calls, passlog, rewound, ev

vars == <<dataset, batch_size, use_cuda, idx_list, curidx, lengths,
          result, batch_x, batch_y, calls, passlog, rewound, ev>>

\* the fields and observations of the Batch object
batchvars == <<dataset, batch_size, use_cuda, idx_list, curidx, lengths,
               result, batch_x, batch_y, calls, passlog, rewound>>

(***************************************************************************)
(* Bounds of the model.                                                    *)
(***************************************************************************)
\* largest dataset size
MaxN == 3
\* largest batch size
MaxB == 2
\* largest dataset size where only the cursor's walk is followed
MaxLong == 7

(***************************************************************************)
(* Python helpers.                                                         *)
(***************************************************************************)
Min(a, b) == IF a <= b THEN a ELSE b

\* max(list) of a non-empty list of integers
MaxOf(s) == CHOOSE m \in {s[i] : i \in 1..Len(s)} : \A i \in 1..Len(s) : s[i] <= m

\* list(range(a, b)): a, a+1, ..., b-1 (empty when b <= a)
Range(a, b) == [i \in 1..(b - a) |-> a + i - 1]

\* s[a:b] for 0 <= a, 0 <= b on a 0-indexed list: both ends are clamped
Slice(s, a, b) ==
    LET lo == Min(a, Len(s))
        hi == Min(b, Len(s))
    IN  [i \in 1..(hi - lo) |-> s[lo + i]]

\* min of a non-empty set of integers
SetMin(S) == CHOOSE m \in S : \A x \in S : m <= x

\* d1.update(d2)
Update(d1, d2) ==
    [k \in (DOMAIN d1) \cup (DOMAIN d2) |-> IF k \in DOMAIN d2 THEN d2[k] ELSE d1[k]]

\* the value of a field that holds None (no sampler output is <<-1>>)
None == <<-1>>

\* an empty dict
EmptyDict == [k \in {} |-> 0]

\* evaluate is not running
EvIdle == [pc |-> "idle"]

(***************************************************************************)
(* The dataset and the sampler (collaborators of Batch).                   *)
(***************************************************************************)
\* the fields of an instance
Fields == {"text", "label"}

\* Field.is_target: "text" is an input, "label" a target
is_target == [f \in Fields |-> f = "label"]

\* an instance is given by the length of each of its fields; the instances
\* the datasets are made of
Instances == { [text |-> 4, label |-> 2], [text |-> 7, label |-> 1], [text |-> 2, label |-> 3] }

\* the datasets of at most MaxN instances
DataSets == UNION {[1..n -> Instances] : n \in 0..MaxN}

\* DataSet.get_length(): field name -> the per-instance lengths, in dataset order
get_length(ds) == [f \in Fields |-> [i \in 1..Len(ds) |-> ds[i][f]]]

\* the k-th token index of instance idx (0-based): a non-zero vocabulary index;
\* instance idx is made of the token idx + 1 repeated, so a row names its instance
Token(idx, k) == idx + 1

\* Field.to_tensor(padding_length): the field's token indices followed by
\* zeros, padding_length entries in all, on the host
FieldTensor(ds, idx, f, pad) ==
    [data   |-> [k \in 1..pad |-> IF k <= ds[idx + 1][f] THEN Token(idx, k) ELSE 0],
     device |-> "cpu"]

\* DataSet.to_tensor(idx, padding_length) -> (x, y): the input fields' and
\* the target fields' tensors of instance idx (0-based)
to_tensor(ds, idx, padding_length) ==
    << [f \in {g \in Fields : ~is_target[g]} |-> FieldTensor(ds, idx, f, padding_length[f])],
       [f \in {g \in Fields : is_target[g]}  |-> FieldTensor(ds, idx, f, padding_length[f])] >>

\* what a sampler may return for a dataset ds: a permutation of
\* [0, len(ds)), as a 1-indexed sequence
sampler(ds) ==
    {p \in [1..Len(ds) -> 0..(Len(ds) - 1)] : \A i, j \in 1..Len(ds) : p[i] = p[j] => i = j}

(***************************************************************************)
(* Batch.__next__, step by step.                                           *)
(***************************************************************************)
\* (mutant) the test misses the cursor that sits exactly at the end
StopCond_strict(c, L) == c > L

\* line 47: the end-of-sequence test
StopCond(c, L) == c >= L

\* (mutant) the slice end taken without the cap at the end of the ordering
EndIdx_uncapped(c, B, L) == c + B

\* (mutant) the slice end taken one position too far
EndIdx_inclusive(c, B, L) == Min(c + B + 1, L)

\* line 50: endidx
EndIdx(c, B, L) == Min(c + B, L)

\* (mutant) padding to the dataset-wide maximum
PaddingLength_whole(lens, c, e) == [f \in DOMAIN lens |-> MaxOf(lens[f])]

\* lines 51-52: padding_length
PaddingLength(lens, c, e) == [f \in DOMAIN lens |-> MaxOf(Slice(lens[f], c, e))]

\* (mutant) the slice taken from the start of the list
OriginLengths_from0(lens, c, e) == [f \in DOMAIN lens |-> Slice(lens[f], 0, e - c)]

\* lines 53-54: origin_lengths
OriginLengths(lens, c, e) == [f \in DOMAIN lens |-> Slice(lens[f], c, e)]

\* (mutant) the positions of the slice looked up in the ordering
BatchIndices_sampled(il, c, e) == [i \in 1..(e - c) |-> il[c + i]]

\* line 57: the dataset indices of the batch, in order
BatchIndices(il, c, e) == Range(c, e)

\* lines 59-60: batch_x[name].append(tensor), over the instances of the batch
AggregateX(outs) ==
    [f \in UNION {DOMAIN outs[i][1] : i \in 1..Len(outs)} |->
        [i \in 1..Len(outs) |-> outs[i][1][f]]]

\* (mutant) the target tensors never reach batch_y
AggregateY_lost(outs) == EmptyDict

\* lines 61-62: batch_y[name].append(tensor), over the instances of the batch
AggregateY(outs) ==
    [f \in UNION {DOMAIN outs[i][2] : i \in 1..Len(outs)} |->
        [i \in 1..Len(outs) |-> outs[i][2][f]]]

\* lines 68-71 and 75-78: where a produced tensor is placed
Device(cuda) == IF cuda THEN "cuda" ELSE "cpu"

\* lines 66-71: torch.stack(tensor_list, dim=0), moved to the device
Stack(batch, cuda) ==
    [f \in DOMAIN batch |->
        [data   |-> [i \in 1..Len(batch[f]) |-> batch[f][i].data],
         device |-> Device(cuda)]]

\* (mutant) the length tensors are left on the host
BatchOriginLength_host(bx, ol, cuda) ==
    [k \in {f \o "_origin_len" : f \in DOMAIN bx} |->
        [data   |-> ol[CHOOSE f \in DOMAIN bx : f \o "_origin_len" = k],
         device |-> "cpu"]]

\* lines 74-78: batch_origin_length
BatchOriginLength(bx, ol, cuda) ==
    [k \in {f \o "_origin_len" : f \in DOMAIN bx} |->
        [data   |-> ol[CHOOSE f \in DOMAIN bx : f \o "_origin_len" = k],
         device |-> Device(cuda)]]

\* (mutant) the cursor moved to the slice end
AdvanceCursor_toend(c, e) == e

\* (mutant) the cursor moved by one position
AdvanceCursor_byone(c, e) == c + 1

\* (mutant) the cursor not moved
AdvanceCursor_stuck(c, e) == c

\* line 81: the cursor after a batch
AdvanceCursor(c, e) == c + e

\* (mutant) the cursor advanced before the batch is assembled
CursorOnFailure_advanced(c, e) == c + e

\* lines 57-58 before line 81: the cursor when a conversion fails inside the
\* loop, which runs before the cursor is advanced
CursorOnFailure(c, e) == c

\* (mutant) the cursor is left where the previous pass stopped
IterCursor_kept(c) == c

\* line 28: the cursor at the start of a pass
IterCursor(c) == 0

(***************************************************************************)
(* The operations.                                                         *)
(***************************************************************************)
\* Batch.__init__ on a dataset, a batch size and a device flag
Init ==
    /\ dataset \in DataSets
    /\ batch_size \in 1..MaxB
    /\ use_cuda \in BOOLEAN
    /\ idx_list = None
    /\ curidx = 0
    /\ lengths = [f \in Fields |-> <<>>]
    /\ result = "init"
    /\ batch_x = EmptyDict
    /\ batch_y = EmptyDict
    /\ calls = <<>>
    /\ passlog = <<>>
    /\ rewound = FALSE
    /\ ev = EvIdle

\* (mutant) the ordering is applied by rearranging the dataset in place
IterTo_reordering(p) ==
    /\ idx_list' = p
    /\ dataset' = [i \in 1..Len(dataset) |-> dataset[p[i] + 1]]
    /\ curidx' = 0
    /\ lengths' = get_length(dataset')
    /\ result' = "iter"
    /\ batch_x' = EmptyDict
    /\ batch_y' = EmptyDict
    /\ calls' = <<>>
    /\ passlog' = <<>>
    /\ rewound' = (curidx > 0)
    /\ UNCHANGED <<batch_size, use_cuda, ev>>

\* Batch.__iter__ when the sampler returns p: the ordering is kept, the cursor
\* set to 0 and the lengths snapshot taken
IterTo(p) ==
    /\ idx_list' = p
    /\ curidx' = IterCursor(curidx)
    /\ lengths' = get_length(dataset)
    /\ result' = "iter"
    /\ batch_x' = EmptyDict
    /\ batch_y' = EmptyDict
    /\ calls' = <<>>
    /\ passlog' = <<>>
    /\ rewound' = (curidx > 0)
    /\ UNCHANGED <<dataset, batch_size, use_cuda, ev>>

\* Batch.__iter__ with a sampler that returns a permutation of [0, len(dataset))
__iter__ == \E p \in sampler(dataset) : IterTo(p)

\* an exception leaves __next__: nothing is returned, the iterator is as before
Raise(exc, made) ==
    /\ result' = exc
    /\ batch_x' = EmptyDict
    /\ batch_y' = EmptyDict
    /\ calls' = made
    /\ UNCHANGED <<dataset, batch_size, use_cuda, idx_list, curidx, lengths, passlog, rewound, ev>>

\* dataset.to_tensor raises inside the loop of lines 57-62 after the calls
\* `made`: nothing is returned
RaiseInLoop(exc, made, c, e) ==
    /\ result' = exc
    /\ batch_x' = EmptyDict
    /\ batch_y' = EmptyDict
    /\ calls' = made
    /\ curidx' = CursorOnFailure(c, e)
    /\ UNCHANGED <<dataset, batch_size, use_cuda, idx_list, lengths, passlog, rewound, ev>>

\* lines 50-79: what __next__ hands to the dataset and returns, from cursor c
\* with slice end e, when the ordering is il
BatchOut(ds, lens, cuda, il, c, e) ==
    LET padding_length == PaddingLength(lens, c, e)
        origin_lengths == OriginLengths(lens, c, e)
        idxs == BatchIndices(il, c, e)
        made == [i \in 1..Len(idxs) |-> [idx |-> idxs[i], padding_length |-> padding_length]]
        outs == [i \in 1..Len(idxs) |-> to_tensor(ds, idxs[i], padding_length)]
        bx   == Stack(AggregateX(outs), cuda)
        by   == Stack(AggregateY(outs), cuda)
    IN  [x     |-> Update(bx, BatchOriginLength(bx, origin_lengths, cuda)),
         y     |-> by,
         calls |-> made]

\* Batch.__next__, lines 50-82, from cursor c with slice end e
MakeBatch(c, e) ==
    LET out == BatchOut(dataset, lengths, use_cuda, idx_list, c, e)
    IN  /\ result' = "batch"
        /\ batch_x' = out.x
        /\ batch_y' = out.y
        /\ calls' = out.calls
        /\ curidx' = AdvanceCursor(c, e)
        /\ passlog' = Append(passlog, <<c, e>>)
        /\ UNCHANGED <<dataset, batch_size, use_cuda, idx_list, lengths, rewound, ev>>

\* Batch.__next__
__next__ ==
    IF idx_list = None
    THEN Raise("TypeError", <<>>)
    ELSE IF StopCond(curidx, Len(idx_list))
    THEN Raise("StopIteration", <<>>)
    ELSE LET e == EndIdx(curidx, batch_size, Len(idx_list))
             idxs == BatchIndices(idx_list, curidx, e)
             bad == {i \in 1..Len(idxs) : idxs[i] < 0 \/ idxs[i] >= Len(dataset)}
         IN  IF \E f \in DOMAIN lengths : Slice(lengths[f], curidx, e) = <<>>
             THEN Raise("ValueError", <<>>)
             ELSE IF bad # {}
             THEN RaiseInLoop("IndexError",
                              [i \in 1..SetMin(bad) |->
                                  [idx |-> idxs[i],
                                   padding_length |-> PaddingLength(lengths, curidx, e)]],
                              curidx, e)
             ELSE MakeBatch(curidx, e)

Next == __iter__ \/ __next__

Spec == Init /\ [][Next]_vars

(***************************************************************************)
(* Vocabulary of the properties.                                           *)
(***************************************************************************)
\* the dataset size
N == Len(dataset)

\* ceil(n / b)
CeilDiv(n, b) == (n + b - 1) \div b

\* the number of instances of the k-th batch of the pass
Width(k) == passlog[k][2] - passlog[k][1]

\* the instance counts of the first k batches of the pass, summed
RECURSIVE SumWidths(_)
SumWidths(k) == IF k = 0 THEN 0 ELSE Width(k) + SumWidths(k - 1)

\* the start cursor and the slice end of the batch just produced
LastStart == passlog[Len(passlog)][1]
LastEnd == passlog[Len(passlog)][2]

\* the input-tagged and the target-tagged fields
InputFields == {f \in Fields : ~is_target[f]}
TargetFields == {f \in Fields : is_target[f]}

\* max of a non-empty set of integers
SetMax(S) == CHOOSE m \in S : \A x \in S : x <= m

\* the dataset index (0-based) of the instance a padded row was made from
RowInstance(row) == row[1] - 1

\* the results __next__ can end with
NextResults == {"batch", "StopIteration", "TypeError", "ValueError", "IndexError"}

(***************************************************************************)
(* C1. A full pass (__iter__, then __next__ until end-of-sequence) yields  *)
(* exactly ceil(N/B) batches whose instance counts sum to N.               *)
(***************************************************************************)
C1_FullPass ==
    result = "StopIteration" =>
        /\ Len(passlog) = CeilDiv(N, batch_size)
        /\ SumWidths(Len(passlog)) = N

(***************************************************************************)
(* C2. The instance at batch position i is dataset instance                *)
(* idx_list[curidx + i] of the sampler's ordering: that is the index       *)
(* handed to to_tensor, and the _origin_len entry is that instance's       *)
(* length.                                                                 *)
(***************************************************************************)
C2_SamplerOrder ==
    result = "batch" =>
        \A i \in 1..Len(calls) :
            /\ calls[i].idx = idx_list[LastStart + i]
            /\ \A f \in InputFields :
                  batch_x[f \o "_origin_len"].data[i] = dataset[idx_list[LastStart + i] + 1][f]

(***************************************************************************)
(* C3. In every batch, for every field, the padding length passed to       *)
(* to_tensor for each instance is the maximum of that field's lengths over *)
(* exactly the instances of the batch, field by field.                     *)
(***************************************************************************)
C3_PaddingPerBatch ==
    result = "batch" =>
        \A i \in 1..Len(calls) :
            /\ DOMAIN calls[i].padding_length = Fields
            /\ \A f \in Fields :
                  calls[i].padding_length[f] =
                      SetMax({dataset[calls[j].idx + 1][f] : j \in 1..Len(calls)})

\* a batch of two instances padded below the dataset-wide maximum, whose
\* "text" and "label" maxima come from different instances
C3_Witness ==
    /\ result = "batch"
    /\ Len(calls) = 2
    /\ dataset[calls[1].idx + 1] = [text |-> 4, label |-> 2]
    /\ dataset[calls[2].idx + 1] = [text |-> 2, label |-> 3]
    /\ calls[2].padding_length = [text |-> 4, label |-> 3]
    /\ \E k \in 1..N : dataset[k]["text"] = 7

(***************************************************************************)
(* C4. In every batch, for every input field f, batch_x holds              *)
(* f + "_origin_len" with one entry per instance of the batch, the i-th    *)
(* being the true length of field f of the instance whose tensor is at     *)
(* position i of batch_x[f].                                               *)
(***************************************************************************)
C4_OriginLen ==
    result = "batch" =>
        \A f \in InputFields :
            /\ f \in DOMAIN batch_x
            /\ (f \o "_origin_len") \in DOMAIN batch_x
            /\ Len(batch_x[f \o "_origin_len"].data) = Len(calls)
            /\ Len(batch_x[f].data) = Len(calls)
            /\ \A i \in 1..Len(calls) :
                  batch_x[f \o "_origin_len"].data[i] =
                      dataset[RowInstance(batch_x[f].data[i]) + 1][f]

\* a second batch of a pass, whose instances differ in length from the first's
C4_Witness ==
    /\ result = "batch"
    /\ Len(passlog) = 2
    /\ batch_x["text_origin_len"].data = <<7>>
    /\ dataset[1]["text"] = 4

(***************************************************************************)
(* C5. In every batch, batch_y holds exactly the target field names        *)
(* to_tensor returned and no "_origin_len" entry; batch_x holds the input  *)
(* fields and one "_origin_len" entry per input field.                     *)
(***************************************************************************)
C5_TargetsPlain ==
    result = "batch" =>
        /\ DOMAIN batch_y = DOMAIN to_tensor(dataset, calls[1].idx, calls[1].padding_length)[2]
        /\ DOMAIN batch_y = TargetFields
        /\ \A f \in Fields : (f \o "_origin_len") \notin DOMAIN batch_y
        /\ DOMAIN batch_x = InputFields \cup {f \o "_origin_len" : f \in InputFields}

\* a batch whose target tensor has two rows
C5_Witness ==
    /\ result = "batch"
    /\ "label" \in DOMAIN batch_y
    /\ Len(batch_y["label"].data) = 2
    /\ "text_origin_len" \in DOMAIN batch_x

(***************************************************************************)
(* C6. Whatever happened before, __iter__ takes a fresh ordering from the  *)
(* sampler, refreshes the length snapshot and sets the cursor to 0, so the *)
(* next batch produced starts at position 0.                               *)
(***************************************************************************)
C6_IterResets ==
    /\ [][result' = "iter" =>
            /\ idx_list' \in sampler(dataset)
            /\ lengths' = get_length(dataset)
            /\ curidx' = 0]_vars
    /\ [](result = "batch" /\ Len(passlog) = 1 =>
            /\ LastStart = 0
            /\ calls[1].idx = 0
            /\ RowInstance(batch_x["text"].data[1]) = 0)

\* the first batch of a pass that was entered with a cursor left over from
\* the pass before
C6_Witness ==
    /\ rewound
    /\ result = "batch"
    /\ Len(passlog) = 1
    /\ LastStart = 0

(***************************************************************************)
(* C7. Lengths [4, 7, 2] for "text", batch size 2, the identity ordering:  *)
(* one pass yields two batches and then end-of-sequence; batch 1 holds     *)
(* instances 0 and 1 padded to 7 with text_origin_len = [4, 7], batch 2    *)
(* holds instance 2 alone padded to 2 with text_origin_len = [2].          *)
(***************************************************************************)
C7_Scenario ==
    /\ get_length(dataset)["text"] = <<4, 7, 2>>
    /\ batch_size = 2
    /\ idx_list = <<0, 1, 2>>

C7_Concrete ==
    C7_Scenario =>
        /\ result \in {"iter", "batch", "StopIteration"}
        /\ Len(passlog) <= 2
        /\ result = "StopIteration" => passlog = << <<0, 2>>, <<2, 3>> >>
        /\ (result = "batch" /\ Len(passlog) = 1) =>
              /\ <<calls[1].idx, calls[2].idx>> = <<0, 1>> /\ Len(calls) = 2
              /\ batch_x["text"].data =
                    << <<1, 1, 1, 1, 0, 0, 0>>, <<2, 2, 2, 2, 2, 2, 2>> >>
              /\ batch_x["text_origin_len"].data = <<4, 7>>
        /\ (result = "batch" /\ Len(passlog) = 2) =>
              /\ calls[1].idx = 2 /\ Len(calls) = 1
              /\ batch_x["text"].data = << <<3, 3>> >>
              /\ batch_x["text_origin_len"].data = <<2>>

\* the scenario's pass has ended, after its two batches
C7_Witness ==
    /\ C7_Scenario
    /\ result = "StopIteration"
    /\ Len(passlog) = 2

(***************************************************************************)
(* C8. Once __iter__ has been called, 0 <= curidx <= len(idx_list).        *)
(***************************************************************************)
C8_CursorInRange ==
    idx_list # None => (0 <= curidx /\ curidx <= Len(idx_list))

(***************************************************************************)
(* C9. __next__ signals end-of-sequence exactly when the cursor is         *)
(* >= len(idx_list); it then produces no batch and leaves cursor, idx_list *)
(* and the length snapshot alone, so that a further __next__ signals       *)
(* end-of-sequence again.                                                  *)
(***************************************************************************)
C9_EndOfSequence ==
    /\ [][(idx_list # None /\ result' \in NextResults) =>
            /\ (result' = "StopIteration") <=> (curidx >= Len(idx_list))
            /\ result' = "StopIteration" =>
                  /\ batch_x' = EmptyDict /\ batch_y' = EmptyDict /\ calls' = <<>>
                  /\ passlog' = passlog
                  /\ UNCHANGED <<curidx, idx_list, lengths>>]_vars
    /\ [](result = "StopIteration" => idx_list # None /\ curidx >= Len(idx_list))

\* end-of-sequence after a pass that produced batches
C9_Witness ==
    /\ result = "StopIteration"
    /\ Len(passlog) >= 1
    /\ curidx >= Len(idx_list)

(***************************************************************************)
(* C10. A batch produced from cursor c holds min(B, len(idx_list) - c)     *)
(* instances: at least one, at most B, and exactly B unless it is the last *)
(* batch of its pass.                                                      *)
(***************************************************************************)
C10_BatchSize ==
    /\ result = "batch" =>
          /\ Len(calls) = Min(batch_size, Len(idx_list) - LastStart)
          /\ Len(calls) >= 1
          /\ Len(calls) <= batch_size
          /\ \A k \in DOMAIN batch_x : Len(batch_x[k].data) = Len(calls)
          /\ \A k \in DOMAIN batch_y : Len(batch_y[k].data) = Len(calls)
          /\ Width(Len(passlog)) = Len(calls)
    /\ \A k \in 1..(Len(passlog) - 1) : Width(k) = batch_size

\* a pass whose second batch is smaller than the batch size
C10_Witness ==
    /\ result = "batch"
    /\ Len(passlog) = 2
    /\ Width(1) = batch_size
    /\ Len(calls) < batch_size

(***************************************************************************)
(* C11. With use_cuda true every tensor of batch_x (data and _origin_len   *)
(* entries) and of batch_y is on the accelerator; with use_cuda false      *)
(* every one of them is on the host.                                       *)
(***************************************************************************)
C11_DevicePlacement ==
    result = "batch" =>
        /\ \A k \in DOMAIN batch_x : batch_x[k].device = IF use_cuda THEN "cuda" ELSE "cpu"
        /\ \A k \in DOMAIN batch_y : batch_y[k].device = IF use_cuda THEN "cuda" ELSE "cpu"
        /\ DOMAIN batch_x # {} /\ DOMAIN batch_y # {}

\* a batch produced with device placement requested
C11_Witness ==
    /\ use_cuda
    /\ result = "batch"
    /\ batch_x["text_origin_len"].device = "cuda"
    /\ batch_y["label"].device = "cuda"

(***************************************************************************)
(* A sampler that breaks its contract: an ordering of the right length     *)
(* that holds an out-of-range index or a duplicate.                        *)
(***************************************************************************)
MalformedOrderings(ds) ==
    {p \in [1..Len(ds) -> 0..Len(ds)] : p \notin sampler(ds)}

\* Batch.__iter__ with such a sampler
iter_malformed == \E p \in MalformedOrderings(dataset) : IterTo(p)

NextMalformed == iter_malformed \/ __next__

SpecMalformed == Init /\ [][NextMalformed]_vars

(***************************************************************************)
(* C12. With an ordering of length N that holds out-of-range indices or    *)
(* duplicates, the pass fails with a failure raised by dataset.to_tensor   *)
(* during some step: it does not run to end-of-sequence.                   *)
(***************************************************************************)
C12_MalformedFails ==
    (idx_list # None /\ Len(idx_list) = N /\ idx_list \notin sampler(dataset)) =>
        result # "StopIteration"

(***************************************************************************)
(* C13. No operation of the iterator changes the dataset: its instances    *)
(* and every field's per-instance lengths are the same after any step as   *)
(* before it, and the snapshot the iterator keeps agrees with them.        *)
(***************************************************************************)
C13_DatasetUntouched ==
    /\ [][/\ dataset' = dataset
          /\ get_length(dataset') = get_length(dataset)]_vars
    /\ [](idx_list # None => lengths = get_length(dataset))

\* a second pass has run to its end over a dataset of three instances
C13_Witness ==
    /\ rewound
    /\ result = "StopIteration"
    /\ Len(passlog) = 2
    /\ N = 3

(***************************************************************************)
(* The cursor's walk over longer datasets, with the sequential sampler of  *)
(* the running example.                                                    *)
(***************************************************************************)
\* the i-th instance (1-based) of a long dataset
InstanceAt(i) ==
    CASE i % 3 = 1 -> [text |-> 4, label |-> 2]
      [] i % 3 = 2 -> [text |-> 7, label |-> 1]
      [] OTHER     -> [text |-> 2, label |-> 3]

\* the datasets of at most MaxLong instances
LongDataSets == {[i \in 1..n |-> InstanceAt(i)] : n \in 0..MaxLong}

\* SeqSampler.__call__: list(range(len(dataset)))
SeqSampler(ds) == Range(0, Len(ds))

\* Batch.__init__ on a long dataset
InitSeq ==
    /\ dataset \in LongDataSets
    /\ batch_size \in 1..MaxB
    /\ use_cuda \in BOOLEAN
    /\ idx_list = None
    /\ curidx = 0
    /\ lengths = [f \in Fields |-> <<>>]
    /\ result = "init"
    /\ batch_x = EmptyDict
    /\ batch_y = EmptyDict
    /\ calls = <<>>
    /\ passlog = <<>>
    /\ rewound = FALSE
    /\ ev = EvIdle

\* Batch.__iter__ with the sequential sampler
iter_seq == IterTo(SeqSampler(dataset))

NextSeq == iter_seq \/ __next__

SpecSeq == InitSeq /\ [][NextSeq]_vars

(***************************************************************************)
(* C14 as claimed: every batch of a pass other than the first starts       *)
(* strictly beyond the slice end of the batch before it.                   *)
(***************************************************************************)
C14_GapAfterFirst ==
    \A k \in 2..Len(passlog) : passlog[k][1] > passlog[k - 1][2]

(***************************************************************************)
(* C14 as amended: the second batch of a pass starts exactly at the slice  *)
(* end of the first, and every later batch starts strictly beyond the      *)
(* slice end of the batch before it, leaving a gap of unvisited positions. *)
(***************************************************************************)
C14_GapAfterSecond ==
    \A k \in 2..Len(passlog) :
        IF k = 2
        THEN passlog[k][1] = passlog[k - 1][2]
        ELSE /\ passlog[k][1] > passlog[k - 1][2]
             /\ \A pos \in passlog[k - 1][2]..(passlog[k][1] - 1) :
                   \A j \in 1..Len(passlog) : ~(passlog[j][1] <= pos /\ pos < passlog[j][2])

\* a pass with a third batch
C14_Witness ==
    /\ result = "batch"
    /\ Len(passlog) = 3
    /\ passlog[3][1] > passlog[2][2]

(***************************************************************************)
(* The consumer loop of the running example, `for batch_x, batch_y in      *)
(* data_iterator`: one __iter__, then __next__ until it signals            *)
(* end-of-sequence.  The loop keeps running while it has a step to take.   *)
(***************************************************************************)
LoopIter == result = "init" /\ iter_seq

LoopNext == result \in {"iter", "batch"} /\ __next__

NextLoop == LoopIter \/ LoopNext

SpecLoop == InitSeq /\ [][NextLoop]_vars /\ WF_vars(NextLoop)

(***************************************************************************)
(* C15. Every pass terminates: each __next__ that produces a batch         *)
(* strictly increases the cursor, at most N batches are produced after     *)
(* __iter__, and the consumer loop reaches end-of-sequence.                *)
(***************************************************************************)
C15_PassTerminates ==
    /\ [][result' = "batch" => curidx' > curidx]_vars
    /\ [](Len(passlog) <= N)
    /\ <>(result = "StopIteration")

\* the loop has ended after three batches
C15_Witness ==
    /\ result = "StopIteration"
    /\ Len(passlog) = 3
    /\ curidx > N

(***************************************************************************)
(* evaluate(net, dataset, bactch_size, use_cuda) of                        *)
(* model_inplement/code/evaluate.py.  ev holds the call's arguments        *)
(* (data, bs, use_cuda), the number i of batches the loop has consumed,    *)
(* the counter count and, once returned, the result ret.                   *)
(***************************************************************************)
\* the classes the network scores
Classes == {0, 1}

\* a sample: the scores net gives its document, one per class (the network's
\* output for a sample does not depend on the rest of its batch), and its label
Samples ==
    {[scores |-> s, y |-> c] : s \in {<<-1, -2>>, <<-2, -1>>}, c \in Classes}

\* the datasets evaluate is called on
EvalDataSets == UNION {[1..n -> Samples] : n \in 0..MaxN}

\* line 5 and line 9: the i-th batch (0-based) of DataLoader(dataset,
\* batch_size=bs): consecutive samples, the last batch possibly smaller
LoaderBatch(data, bs, i) == Slice(data, i * bs, (i + 1) * bs)

\* line 22: predicts = net(doc_list), one row of scores per sample
Predicts(batch) == [j \in 1..Len(batch) |-> batch[j].scores]

\* line 27: torch.max(predicts, dim=1), the index of each row's largest score
ArgMax(predicts) ==
    [j \in 1..Len(predicts) |->
        CHOOSE c \in Classes : \A d \in Classes : predicts[j][d + 1] <= predicts[j][c + 1]]

\* line 29: torch.eq(idx, y), elementwise
TorchEq(idx, y) == [j \in 1..Len(idx) |-> IF idx[j] = y[j] THEN 1 ELSE 0]

\* line 29: torch.sum
RECURSIVE TorchSum(_)
TorchSum(t) == IF t = <<>> THEN 0 ELSE t[1] + TorchSum(Tail(t))

\* (mutant) the counter overwritten by the batch's count
CountUpdate_overwrite(count, k) == k

\* line 29: count += ...
CountUpdate(count, k) == count + k

\* the call of evaluate: lines 4-8
InitEval ==
    /\ dataset = <<>>
    /\ batch_size = 1
    /\ use_cuda = FALSE
    /\ idx_list = None
    /\ curidx = 0
    /\ lengths = [f \in Fields |-> <<>>]
    /\ result = "init"
    /\ batch_x = EmptyDict
    /\ batch_y = EmptyDict
    /\ calls = <<>>
    /\ passlog = <<>>
    /\ rewound = FALSE
    /\ \E d \in EvalDataSets, b \in 1..MaxB, cuda \in BOOLEAN :
          ev = [pc |-> "loop", data |-> d, bs |-> b, use_cuda |-> cuda,
                i |-> 0, count |-> 0, ret |-> 0]

\* lines 9-29: one turn of the loop over the dataloader
EvalBatch ==
    /\ ev.pc = "loop"
    /\ ev.i * ev.bs < Len(ev.data)
    /\ LET batch == LoaderBatch(ev.data, ev.bs, ev.i)
           y     == [j \in 1..Len(batch) |-> batch[j].y]
           idx   == ArgMax(Predicts(batch))
       IN  ev' = [ev EXCEPT !.i = @ + 1,
                            !.count = CountUpdate(@, TorchSum(TorchEq(idx, y)))]
    /\ UNCHANGED batchvars

\* line 30: return count, once the dataloader is exhausted
EvalReturn ==
    /\ ev.pc = "loop"
    /\ ev.i * ev.bs >= Len(ev.data)
    /\ ev' = [ev EXCEPT !.pc = "done", !.ret = ev.count]
    /\ UNCHANGED batchvars

NextEval == EvalBatch \/ EvalReturn

SpecEval == InitEval /\ [][NextEval]_vars

\* the number of samples whose arg-max class is their label
Correct(data) ==
    Cardinality({j \in 1..Len(data) :
        \A d \in Classes : data[j].scores[d + 1] <= data[j].scores[data[j].y + 1]})

(***************************************************************************)
(* C16. evaluate returns the number of correct predictions over the whole  *)
(* dataset: the counter starts at 0, each batch adds the number of its     *)
(* samples whose arg-max class equals the label, the counter never         *)
(* decreases, and the result lies between 0 and the dataset size and is    *)
(* the same for every batch size.                                          *)
(***************************************************************************)
C16_EvaluateCounts ==
    /\ [][/\ ev'.count >= ev.count
          /\ ev'.i = ev.i + 1 =>
                ev'.count = ev.count + Correct(LoaderBatch(ev.data, ev.bs, ev.i))
          /\ ev'.i = ev.i => ev'.count = ev.count]_vars
    /\ [](ev.i = 0 => ev.count = 0)
    /\ [](ev.pc = "done" =>
            /\ ev.ret = Correct(ev.data)
            /\ 0 <= ev.ret /\ ev.ret <= Len(ev.data))

\* evaluate has returned 2 for three samples taken in batches of two
C16_Witness ==
    /\ ev.pc = "done"
    /\ ev.bs = 2
    /\ Len(ev.data) = 3
    /\ ev.i = 2
    /\ ev.ret = 2
    /\ ev.data[3].y = 1 /\ ev.data[3].scores = <<-2, -1>>

(***************************************************************************)
(* C17. Within one pass the slices [curidx, endidx) of successive batches  *)
(* are non-empty, strictly increasing and pairwise disjoint, so no dataset *)
(* position is put in more than one batch of the pass.                     *)
(***************************************************************************)
C17_SlicesDisjoint ==
    /\ \A k \in 1..Len(passlog) : passlog[k][1] < passlog[k][2]
    /\ \A j, k \in 1..Len(passlog) : j < k => passlog[j][2] <= passlog[k][1]
    /\ result = "batch" =>
          /\ [i \in 1..Len(calls) |-> calls[i].idx] = Range(LastStart, LastEnd)
          /\ \A i \in 1..Len(calls) : \A k \in 1..(Len(passlog) - 1) :
                ~(passlog[k][1] <= calls[i].idx /\ calls[i].idx < passlog[k][2])

\* a pass of three batches of more than one instance each but the last
C17_Witness ==
    /\ result = "batch"
    /\ batch_size = 2
    /\ passlog = << <<0, 2>>, <<2, 4>>, <<6, 7>> >>

\* 2^k
RECURSIVE Pow2(_)
Pow2(k) == IF k = 0 THEN 1 ELSE 2 * Pow2(k - 1)

\* the positions of [0, N) that some batch of the pass covers
Visited == {pos \in 0..(N - 1) : \E k \in 1..Len(passlog) : passlog[k][1] <= pos /\ pos < passlog[k][2]}

(***************************************************************************)
(* C18. The k-th batch of a pass (k = 0, 1, 2, ...) starts at position     *)
(* (2^k - 1) * B; a full pass visits every position of [0, N) exactly when *)
(* N <= 2 * B, and for N > 2 * B the positions [2B, min(3B, N)) are never  *)
(* visited in that pass.                                                   *)
(***************************************************************************)
C18_StartPositions ==
    /\ \A k \in 1..Len(passlog) : passlog[k][1] = (Pow2(k - 1) - 1) * batch_size
    /\ result = "StopIteration" =>
          /\ (Visited = 0..(N - 1)) <=> (N <= 2 * batch_size)
          /\ N > 2 * batch_size =>
                /\ 2 * batch_size < Min(3 * batch_size, N)
                /\ \A pos \in (2 * batch_size)..(Min(3 * batch_size, N) - 1) : pos \notin Visited
    /\ \A pos \in (2 * batch_size)..(Min(3 * batch_size, N) - 1) : pos \notin Visited

\* a finished pass over seven instances in batches of two: positions 4 and 5
\* were skipped
C18_Witness ==
    /\ result = "StopIteration"
    /\ N = 7
    /\ batch_size = 2
    /\ Len(passlog) = 3
    /\ Visited = {0, 1, 2, 3, 6}

(***************************************************************************)
(* A sampler that returns one index too many, list(range(len(dataset)+1)): *)
(* the conversion of the last position fails in dataset.to_tensor.         *)
(***************************************************************************)
OverlongSampler(ds) == Range(0, Len(ds) + 1)

\* Batch.__iter__ with that sampler
iter_overlong == IterTo(OverlongSampler(dataset))

NextOverlong == iter_overlong \/ __next__

SpecOverlong == Init /\ [][NextOverlong]_vars

(***************************************************************************)
(* C19. If dataset.to_tensor fails for some instance during a step, the    *)
(* failure leaves __next__, no batch is returned, and cursor, idx_list and *)
(* length snapshot are as before the step, so that a further __next__      *)
(* attempts the same slice again.                                          *)
(***************************************************************************)
C19_FailureKeepsState ==
    /\ [][result' = "IndexError" =>
            /\ batch_x' = EmptyDict /\ batch_y' = EmptyDict
            /\ UNCHANGED <<curidx, idx_list, lengths, passlog, dataset>>]_vars
    /\ [](result = "IndexError" =>
            /\ curidx < Len(idx_list)
            /\ calls # <<>>
            /\ calls[1].idx = curidx
            /\ calls[Len(calls)].idx >= N
            /\ \A i \in 1..(Len(calls) - 1) : calls[i].idx < N)

\* the second step of a pass failed at its second instance
C19_Witness ==
    /\ result = "IndexError"
    /\ Len(passlog) = 1
    /\ Len(calls) = 2
    /\ curidx = 2

(***************************************************************************)
(* C20. The batches of a pass depend on the sampler's output only through  *)
(* its length: with any other ordering of the same length in place of      *)
(* idx_list, the step just taken would have covered the same dataset       *)
(* positions, with the same padding lengths and the same _origin_len       *)
(* values, and the pass would end at the same step.                        *)
(***************************************************************************)
C20_OrderingIrrelevant ==
    /\ result = "batch" =>
          \A q \in sampler(dataset) :
              LET e == EndIdx(LastStart, batch_size, Len(q))
              IN  /\ e = LastEnd
                  /\ [i \in 1..Len(calls) |-> calls[i].idx] = BatchIndices(q, LastStart, e)
                  /\ curidx = AdvanceCursor(LastStart, e)
    /\ result = "batch" =>
          /\ \A i \in 1..Len(calls) :
                calls[i].padding_length = PaddingLength(lengths, LastStart, LastEnd)
          /\ \A f \in InputFields :
                batch_x[f \o "_origin_len"].data = OriginLengths(lengths, LastStart, LastEnd)[f]
    /\ result = "StopIteration" =>
          \A q \in sampler(dataset) : StopCond(curidx, Len(q))

\* the second batch of a pass whose ordering is not the identity
C20_Witness ==
    /\ result = "batch"
    /\ idx_list = <<2, 0, 1>>
    /\ Len(passlog) = 2
    /\ calls[1].idx = 1
    /\ dataset[1] # dataset[2] /\ dataset[2] # dataset[3]

=============================================================================
